---- MODULE Spec2Model ----
(***************************************************************************)
(* Model of properties-builder: the line parser (properties_parser.rs),    *)
(* the two overriders (overriding.rs), the argument validation (model.rs)  *)
(* and the driver loop of main_exec (main.rs).                             *)
(*                                                                         *)
(* A Rust String is a sequence of one-character strings: "a=b" is          *)
(* <<"a", "=", "b">>.  Option and Result values are tagged records.        *)
(* input holds the lines input.lines() yields (no line terminators) and    *)
(* output the text of each writeln!; failures of the reads and writes      *)
(* themselves (FileAccessError) are outside the model.                     *)
(*                                                                         *)
(* Spec runs main_exec and main; SpecParse, SpecSpring, SpecCustom,        *)
(* SpecValidate and SpecAdditions call one function on every argument of   *)
(* their bounds while the driver is idle, SpecScan steps through the       *)
(* while loop of the custom generate_additions, and SpecRoundTrip calls    *)
(* generate_additions and then resolve_substitution on a key it produced.  *)
(***************************************************************************)
EXTENDS Integers, Sequences, FiniteSets, TLC

VARIABLES
    call,                \* harness: the function under test and its arguments
    ret,                 \* harness: the value the function returned
    input,               \* driver: the lines input.lines() yields
    env,                 \* driver: Environment.env, name -> value
    spring,              \* driver: configuration.spring
    replacement_map,     \* driver: configuration.replacement_map
    prefix,              \* driver: configuration.prefix
    pc,                  \* driver: position in main_exec
    line_num,            \* driver: enumerate() index of the next line
    output,              \* driver: the lines written to output
    defined_properties,  \* driver: HashSet of the keys written so far
    additions,           \* driver: what is left of generate_additions' Vec
    generated,           \* driver: the Vec generate_additions returned
    result,              \* driver: what main_exec returned
    scan                 \* the while loop of the custom generate_additions

harness == <<call, ret>>
config == <<input, env, spring, replacement_map, prefix>>
driver == <<pc, line_num, output, defined_properties, additions, generated, result>>
vars == <<call, ret, input, env, spring, replacement_map, prefix, pc, line_num,
          output, defined_properties, additions, generated, result, scan>>

----------------------------------------------------------------------------
(* Bounds of the model. *)

MaxLineLen == 3
MaxKeyLen == 2
MaxNameLen == 3
MaxLines == 2
MaxLineNum == 2
MaxEnvEntries == 1
MaxDriverEnv == 2

----------------------------------------------------------------------------
(* Strings. *)

RECURSIVE SeqsUpTo(_, _)
SeqsUpTo(S, n) ==
    IF n = 0 THEN {<<>>}
    ELSE LET shorter == SeqsUpTo(S, n - 1)
         IN  shorter \cup {Append(s, c) : s \in {t \in shorter : Len(t) = n - 1}, c \in S}

None == [tag |-> "None"]
Some(v) == [tag |-> "Some", val |-> v]
Ok(v) == [tag |-> "Ok", val |-> v]
Err(e) == [tag |-> "Err", err |-> e]

\* the harness: a call that has not returned, and one that returned v
NotCalled == [tag |-> "NotCalled"]

\* no scan of an entry name is under way
NoScan == [tag |-> "NoScan"]
Returned(v) == [tag |-> "Returned", val |-> v]

\* str::starts_with
starts_with(s, p) == Len(p) <= Len(s) /\ SubSeq(s, 1, Len(p)) = p

\* str::contains for a one-character pattern
contains(s, c) == \E i \in 1..Len(s) : s[i] = c

\* (mutant) only one trailing occurrence is removed, as str::strip_suffix does
trim_end_matches_once(s, c) ==
    IF Len(s) > 0 /\ s[Len(s)] = c THEN SubSeq(s, 1, Len(s) - 1) ELSE s

\* str::trim_end_matches for a one-character pattern: every trailing
\* occurrence is removed
RECURSIVE trim_end_matches(_, _)
trim_end_matches(s, c) ==
    IF Len(s) > 0 /\ s[Len(s)] = c
    THEN trim_end_matches(SubSeq(s, 1, Len(s) - 1), c)
    ELSE s

\* str::trim_start_matches for a string pattern: the pattern is removed from
\* the front as long as it occurs there
RECURSIVE trim_start_matches(_, _)
trim_start_matches(s, p) ==
    IF Len(p) > 0 /\ starts_with(s, p)
    THEN trim_start_matches(SubSeq(s, Len(p) + 1, Len(s)), p)
    ELSE s

\* str::split_once for a one-character pattern
split_once(s, c) ==
    IF contains(s, c)
    THEN LET i == CHOOSE j \in 1..Len(s) : s[j] = c /\ \A k \in 1..(j - 1) : s[k] # c
         IN  Some(<<SubSeq(s, 1, i - 1), SubSeq(s, i + 1, Len(s))>>)
    ELSE None

\* str::replace for one-character pattern and replacement
replace(s, from, to) == [i \in 1..Len(s) |-> IF s[i] = from THEN to ELSE s[i]]

\* char::to_uppercase / char::to_lowercase on the characters the model uses
upper_char(c) ==
    CASE c = "a" -> "A"
      [] c = "b" -> "B"
      [] c = "p" -> "P"
      [] OTHER -> c

lower_char(c) ==
    CASE c = "A" -> "a"
      [] c = "B" -> "b"
      [] c = "P" -> "p"
      [] OTHER -> c

to_uppercase(s) == [i \in 1..Len(s) |-> upper_char(s[i])]
to_lowercase(s) == [i \in 1..Len(s) |-> lower_char(s[i])]

\* what the regex class \s matches among the characters the model uses
is_whitespace(c) == c \in {" ", "\t", "\n", "\r"}

\* str::trim: leading and trailing whitespace removed
RECURSIVE trim(_)
trim(s) ==
    IF s = <<>> THEN s
    ELSE IF is_whitespace(Head(s)) THEN trim(Tail(s))
    ELSE IF is_whitespace(s[Len(s)]) THEN trim(SubSeq(s, 1, Len(s) - 1))
    ELSE s

----------------------------------------------------------------------------
(* model.rs: Property and InternalError::ParseError *)

Property(key, value) == [key |-> key, value |-> value]

\* (mutant) the 0-based enumerate() index is reported
parse_error_zero_based(n, message) ==
    [kind |-> "ParseError", line_num |-> n - 1, message |-> message]

parse_error(n, message) == [kind |-> "ParseError", line_num |-> n, message |-> message]

----------------------------------------------------------------------------
(* properties_parser.rs *)

Ignorable(text) == [tag |-> "Ignorable", text |-> text]
Prop(property) == [tag |-> "Prop", property |-> property]

\* (mutant) the regex ^\n*$
empty_line_is_match_newlines_only(line) == \A k \in 1..Len(line) : line[k] = "\n"

\* the regex ^\s*\n*$
empty_line_is_match(line) ==
    \E i \in 0..Len(line) :
        /\ \A k \in 1..i : is_whitespace(line[k])
        /\ \A k \in (i + 1)..Len(line) : line[k] = "\n"

\* (mutant) the message without its quotes
MissingEqualsUnquoted == <<"m", "i", "s", "s", "i", "n", "g", " ", "=">>

MissingEquals == <<"m", "i", "s", "s", "i", "n", "g", " ", "'", "=", "'">>
KeyOpen == <<"k", "e", "y", " ", "'">>
KeyClose == <<"'", " ", "c", "o", "n", "t", "a", "i", "n", "s", " ", "s", "p", "a", "c", "e", "s">>

\* (mutant) the key is reported without its trailing spaces
key_contains_spaces_message_trimmed(key) ==
    KeyOpen \o trim_end_matches(key, " ") \o KeyClose

\* format!("key '{}' contains spaces", key)
key_contains_spaces_message(key) == KeyOpen \o key \o KeyClose

parse_line(line, n) ==
    IF starts_with(line, <<"#">>)
    THEN Ok(Ignorable(trim_end_matches(line, "\n")))
    ELSE IF empty_line_is_match(line)
    THEN Ok(Ignorable(trim_end_matches(line, "\n")))
    ELSE LET split == split_once(line, "=")
         IN  IF split = None
             THEN Err(parse_error(n, MissingEquals))
             ELSE LET key == split.val[1]
                      value == split.val[2]
                  IN  IF contains(key, " ")
                      THEN Err(parse_error(n, key_contains_spaces_message(key)))
                      ELSE Ok(Prop(Property(key, trim_end_matches(value, "\n"))))

----------------------------------------------------------------------------
(* overriding.rs: Environment *)

\* Environment.env is a function from names to values; HashMap iteration
\* visits its entries in an order the program does not control
Orders(S) ==
    {o \in [1..Cardinality(S) -> S] : \A i, j \in 1..Cardinality(S) : i # j => o[i] # o[j]}

\* an Environment without entries
EmptyEnv == [name \in {} |-> <<>>]

environment_get(e, variable) ==
    IF variable \in DOMAIN e THEN Some(e[variable]) ELSE None

\* .filter(|(key, _)| key.starts_with(&prefix_match))
prefixed_entries(e, prefix_match) == {name \in DOMAIN e : starts_with(name, prefix_match)}

----------------------------------------------------------------------------
(* overriding.rs: SpringStyleOverrider *)

\* prefix.map(..).unwrap_or("")
prefix_or_empty(p) == IF p = None THEN <<>> ELSE p.val

\* (mutant) the dashes of the key are not replaced
spring_variable_to_resolve_dots_only(key, p) ==
    prefix_or_empty(p) \o to_uppercase(replace(key, ".", "_"))

spring_variable_to_resolve(key, p) ==
    prefix_or_empty(p) \o to_uppercase(replace(replace(key, ".", "_"), "-", "_"))

spring_resolve_substitution(e, key, p) ==
    environment_get(e, spring_variable_to_resolve(key, p))

\* (mutant) underscores become dashes instead of dots
spring_new_key_dashes(name, prefix_match) ==
    to_lowercase(replace(trim_start_matches(name, prefix_match), "_", "-"))

spring_new_key(name, prefix_match) ==
    to_lowercase(replace(trim_start_matches(name, prefix_match), "_", "."))

\* the Vecs generate_additions can return: one per iteration order
spring_generate_additions(e, prefix_match) ==
    {[i \in 1..Len(o) |-> Property(spring_new_key(o[i], prefix_match), e[o[i]])] :
        o \in Orders(prefixed_entries(e, prefix_match))}

----------------------------------------------------------------------------
(* overriding.rs: CustomCaseSensitiveStyleOverrider *)

\* character_replacement_map is a function from characters to strings
EmptyMap == [c \in {} |-> <<>>]

process_character(m, c) == IF c \in DOMAIN m THEN m[c] ELSE <<c>>

RECURSIVE custom_transformed_key(_, _, _)
custom_transformed_key(m, transformed_key, key) ==
    IF key = <<>> THEN transformed_key
    ELSE custom_transformed_key(m, transformed_key \o process_character(m, Head(key)),
                                Tail(key))

\* (mutant) the transformed key is upper-cased, as the Spring style does
custom_resolve_substitution_uppercased(m, e, key, p) ==
    environment_get(e, to_uppercase(custom_transformed_key(m, prefix_or_empty(p), key)))

custom_resolve_substitution(m, e, key, p) ==
    environment_get(e, custom_transformed_key(m, prefix_or_empty(p), key))

\* the reverse_replacement_index maps the collect() can build: of the
\* characters that share a replacement string, the one visited last is kept
reverse_replacement_indexes(m) ==
    {r \in [{m[c] : c \in DOMAIN m} -> DOMAIN m] : \A s \in DOMAIN r : m[r[s]] = s}

\* (mutant) the candidates are tried shortest first, as after an ascending
\* sort
found_match_shortest_first(candidates, prefixless_key, start) ==
    LET occurring == {c \in candidates :
                         /\ start + Len(c) <= Len(prefixless_key)
                         /\ c = SubSeq(prefixless_key, start + 1, start + Len(c))}
    IN  IF occurring = {} THEN None
        ELSE Some(CHOOSE c \in occurring : \A d \in occurring : Len(c) <= Len(d))

\* the first candidate of replacement_descending that occurs at start
\* (0-based): the longest one; candidates of equal length cannot both occur
found_match(candidates, prefixless_key, start) ==
    LET occurring == {c \in candidates :
                         /\ start + Len(c) <= Len(prefixless_key)
                         /\ c = SubSeq(prefixless_key, start + 1, start + Len(c))}
    IN  IF occurring = {} THEN None
        ELSE Some(CHOOSE c \in occurring : \A d \in occurring : Len(d) <= Len(c))

\* one iteration of the while loop of generate_additions: start and
\* replaced_key after it
scan_iteration(r, prefixless_key, start, replaced_key) ==
    LET found == found_match(DOMAIN r, prefixless_key, start)
    IN  IF found = None
        THEN [start |-> start + 1,
              replaced_key |-> Append(replaced_key, prefixless_key[start + 1])]
        ELSE [start |-> start + Len(found.val),
              replaced_key |-> Append(replaced_key, r[found.val])]

\* the while loop of generate_additions; it does not end when the empty
\* string is the candidate found, as start then stays where it is
RECURSIVE custom_replaced_key(_, _, _, _)
custom_replaced_key(r, prefixless_key, start, replaced_key) ==
    IF ~(start < Len(prefixless_key)) THEN [tag |-> "Done", key |-> replaced_key]
    ELSE LET next == scan_iteration(r, prefixless_key, start, replaced_key)
         IN  IF next.start = start THEN [tag |-> "Loops"]
             ELSE custom_replaced_key(r, prefixless_key, next.start, next.replaced_key)

custom_new_key(r, name, prefix_match) ==
    custom_replaced_key(r, trim_start_matches(name, prefix_match), 0, <<>>)

\* the Vecs generate_additions can return: one per iteration order and
\* reverse index; none when the scan of some entry does not end
custom_generate_additions(m, e, prefix_match) ==
    {[i \in 1..Len(o) |-> Property(custom_new_key(r, o[i], prefix_match).key, e[o[i]])] :
        o \in {q \in Orders(prefixed_entries(e, prefix_match)) :
                  \A i \in 1..Len(q) : \A r \in reverse_replacement_indexes(m) :
                      custom_new_key(r, q[i], prefix_match).tag = "Done"},
        r \in reverse_replacement_indexes(m)}

----------------------------------------------------------------------------
(* model.rs: Args::validate_and_convert *)

Args(output_file, spring_flag, prefix_arg, replacement, file) ==
    [output_file |-> output_file, spring |-> spring_flag, prefix |-> prefix_arg,
     replacement |-> replacement, file |-> file]

Configuration(output_file, spring_flag, prefix_arg, map, file) ==
    [output_file |-> output_file, spring |-> spring_flag, prefix |-> prefix_arg,
     replacement_map |-> map, file |-> file]

ArgumentValidationErrors(errors) == [kind |-> "ArgumentValidationErrors", errors |-> errors]

\* thread 'main' panicked: the call does not return
Panicked == [tag |-> "Panicked"]

replacements_not_allowed_message ==
    <<"r", "e", "p", "l", "a", "c", "e", "m", "e", "n", "t", "s", " ", "a",
      "r", "e", " ", "n", "o", "t", " ", "a", "l", "l", "o", "w", "e", "d",
      " ", "w", "h", "e", "n", " ", "'", "s", "p", "r", "i", "n", "g", "'",
      " ", "f", "l", "a", "g", " ", "i", "s", " ", "p", "a", "s", "s", "e",
      "d">>

prefix_must_not_be_empty_message ==
    <<"p", "r", "e", "f", "i", "x", " ", "m", "u", "s", "t", " ", "n", "o",
      "t", " ", "b", "e", " ", "e", "m", "p", "t", "y">>

hash_missing_message ==
    <<"'", "#", "'", " ", "m", "i", "s", "s", "i", "n", "g">>

not_a_character_message(left) ==
    <<"'">> \o left \o
    <<"'", " ", "i", "s", " ", "n", "o", "t", " ", "a", " ", "c", "h", "a",
      "r", "a", "c", "t", "e", "r">>

error_msg(replacement, message) ==
    <<"r", "e", "p", "l", "a", "c", "e", "m", "e", "n", "t", " ", "'">> \o replacement \o
    <<"'", " ", "d", "o", "e", "s", " ", "n", "o", "t", " ", "c", "o", "n",
      "t", "a", "i", "n", " ", "v", "a", "l", "i", "d", " ", "m", "a", "p",
      "p", "i", "n", "g", " ", "i", "n", " ", "t", "h", "e", " ", "f", "o",
      "r", "m", "a", "t", " ", "'", "c", "#", "s", "t", "r", "'", ":", " ">> \o message

\* (mutant) the negation of replacement.is_empty() is lost
spring_errors_on_empty_list(args) ==
    IF args.spring /\ args.replacement = <<>>
    THEN <<replacements_not_allowed_message>> ELSE <<>>

\* the first check of validate_and_convert
spring_errors(args) ==
    IF args.spring /\ ~(args.replacement = <<>>)
    THEN <<replacements_not_allowed_message>> ELSE <<>>

\* the second check
prefix_errors(args) ==
    IF args.prefix = <<>> THEN <<prefix_must_not_be_empty_message>> ELSE <<>>

\* the loop over self.replacement, from the errors and replacement_map built
\* so far.  left.len() counts bytes, which for the one-byte characters of the
\* model is the number of characters; unwrap() panics on the None that
\* chars().next() returns for an empty left
RECURSIVE convert_replacements(_, _, _)
convert_replacements(replacement, errors, map) ==
    IF replacement = <<>> THEN [tag |-> "Done", errors |-> errors, replacement_map |-> map]
    ELSE IF ~contains(Head(replacement), "#")
    THEN convert_replacements(Tail(replacement),
             Append(errors, error_msg(Head(replacement), hash_missing_message)), map)
    ELSE LET split == split_once(Head(replacement), "#").val
             trimmed == trim(split[1])
             right == trim(split[2])
             left == IF trimmed = <<"\\", "-">> THEN <<"-">> ELSE trimmed
         IN  IF Len(left) > 1
             THEN convert_replacements(Tail(replacement),
                      Append(errors, error_msg(Head(replacement),
                                               not_a_character_message(left))), map)
             ELSE IF left = <<>> THEN Panicked
             ELSE convert_replacements(Tail(replacement), errors,
                                       (left[1] :> right) @@ map)

validate_and_convert(args) ==
    LET errors == spring_errors(args) \o prefix_errors(args)
    IN  IF args.spring /\ errors = <<>>
        THEN Ok(Configuration(args.output_file, args.spring, args.prefix, EmptyMap,
                              args.file))
        ELSE LET converted == convert_replacements(args.replacement, errors, EmptyMap)
             IN  IF converted = Panicked THEN Panicked
                 ELSE IF ~(converted.errors = <<>>)
                 THEN Err(ArgumentValidationErrors(converted.errors))
                 ELSE Ok(Configuration(args.output_file, args.spring, args.prefix,
                                       converted.replacement_map, args.file))

----------------------------------------------------------------------------
(* main.rs: main_exec and main *)

\* the overrider main_exec builds from the configuration
\* (mutant) the prefix is not passed on
overrider_resolve_substitution_without_prefix(key, p) ==
    IF spring THEN spring_resolve_substitution(env, key, None)
    ELSE custom_resolve_substitution(replacement_map, env, key, None)

overrider_resolve_substitution(key, p) ==
    IF spring THEN spring_resolve_substitution(env, key, p)
    ELSE custom_resolve_substitution(replacement_map, env, key, p)

overrider_generate_additions(prefix_match) ==
    IF spring THEN spring_generate_additions(env, prefix_match)
    ELSE custom_generate_additions(replacement_map, env, prefix_match)

\* writeln!(output, "{}={}", key, value)
property_line(key, value) == key \o <<"=">> \o value

\* (mutant) an ignorable line is consumed without being written
ProcessLine_SkipsIgnorable ==
    /\ pc = "lines"
    /\ line_num < Len(input)
    /\ LET parse_result == parse_line(input[line_num + 1], line_num + 1)
       IN  IF parse_result.tag = "Err"
           THEN /\ result' = Err(parse_result.err)
                /\ pc' = "returned"
                /\ UNCHANGED <<line_num, output, defined_properties>>
           ELSE /\ line_num' = line_num + 1
                /\ UNCHANGED <<pc, result>>
                /\ IF parse_result.val.tag = "Ignorable"
                   THEN UNCHANGED <<output, defined_properties>>
                   ELSE LET property == parse_result.val.property
                            overridden == overrider_resolve_substitution(property.key,
                                                                         Some(prefix))
                        IN  /\ output' = Append(output,
                                   IF overridden # None
                                   THEN property_line(property.key, overridden.val)
                                   ELSE property_line(property.key, property.value))
                            /\ defined_properties' = defined_properties \cup {property.key}
    /\ UNCHANGED <<scan, call, ret, config, additions, generated>>

\* one iteration of the loop over input.lines()
ProcessLine ==
    /\ pc = "lines"
    /\ line_num < Len(input)
    /\ LET parse_result == parse_line(input[line_num + 1], line_num + 1)
       IN  IF parse_result.tag = "Err"
           THEN /\ result' = Err(parse_result.err)
                /\ pc' = "returned"
                /\ UNCHANGED <<line_num, output, defined_properties>>
           ELSE /\ line_num' = line_num + 1
                /\ UNCHANGED <<pc, result>>
                /\ IF parse_result.val.tag = "Ignorable"
                   THEN /\ output' = Append(output, parse_result.val.text)
                        /\ UNCHANGED defined_properties
                   ELSE LET property == parse_result.val.property
                            overridden == overrider_resolve_substitution(property.key,
                                                                         Some(prefix))
                        IN  /\ output' = Append(output,
                                   IF overridden # None
                                   THEN property_line(property.key, overridden.val)
                                   ELSE property_line(property.key, property.value))
                            /\ defined_properties' = defined_properties \cup {property.key}
    /\ UNCHANGED <<scan, call, ret, config, additions, generated>>

\* the call of generate_additions once the lines are exhausted; the run hangs
\* in it when it does not return
GenerateAdditions ==
    /\ pc = "lines"
    /\ line_num = Len(input)
    /\ IF overrider_generate_additions(prefix) = {}
       THEN /\ pc' = "hung"
            /\ UNCHANGED <<additions, generated>>
       ELSE /\ \E properties \in overrider_generate_additions(prefix) :
                   /\ generated' = properties
                   /\ additions' = properties
            /\ pc' = "additions"
    /\ UNCHANGED <<scan, call, ret, config, line_num, output, defined_properties, result>>

\* (mutant) every generated property is written
WriteAddition_Unfiltered ==
    /\ pc = "additions"
    /\ additions # <<>>
    /\ output' = Append(output, property_line(Head(additions).key, Head(additions).value))
    /\ additions' = Tail(additions)
    /\ UNCHANGED <<scan, call, ret, config, pc, line_num, defined_properties, generated, result>>

\* (mutant) the test of defined_properties is inverted
WriteAddition_Inverted ==
    /\ pc = "additions"
    /\ additions # <<>>
    /\ LET property == Head(additions)
       IN  output' = IF property.key \in defined_properties
                     THEN Append(output, property_line(property.key, property.value))
                     ELSE output
    /\ additions' = Tail(additions)
    /\ UNCHANGED <<scan, call, ret, config, pc, line_num, defined_properties, generated, result>>

\* one iteration of the loop over the generated properties
WriteAddition ==
    /\ pc = "additions"
    /\ additions # <<>>
    /\ LET property == Head(additions)
       IN  output' = IF property.key \notin defined_properties
                     THEN Append(output, property_line(property.key, property.value))
                     ELSE output
    /\ additions' = Tail(additions)
    /\ UNCHANGED <<scan, call, ret, config, pc, line_num, defined_properties, generated, result>>

\* output.flush() and Ok(())
Finish ==
    /\ pc = "additions"
    /\ additions = <<>>
    /\ result' = Ok(<<>>)
    /\ pc' = "returned"
    /\ UNCHANGED <<scan, call, ret, config, line_num, output, defined_properties, additions,
                   generated>>

\* main: the exit code for what main_exec returned
Exit ==
    /\ pc = "returned"
    /\ ret' = Returned(IF result.tag = "Ok" THEN "SUCCESS" ELSE "FAILURE")
    /\ pc' = "exited"
    /\ UNCHANGED <<scan, call, config, line_num, output, defined_properties, additions,
                   generated, result>>

----------------------------------------------------------------------------
(* The driver is idle while a single function is exercised. *)

DriverIdle ==
    /\ input = <<>>
    /\ env = EmptyEnv
    /\ spring = TRUE
    /\ replacement_map = EmptyMap
    /\ prefix = <<>>
    /\ pc = "idle"
    /\ line_num = 0
    /\ output = <<>>
    /\ defined_properties = {}
    /\ additions = <<>>
    /\ generated = <<>>
    /\ result = None
    /\ scan = NoScan


----------------------------------------------------------------------------
(* parse_line on every line over LineChars up to MaxLineLen characters. *)

LineChars == {"#", " ", "\t", "\n", "=", "a"}
Lines == SeqsUpTo(LineChars, MaxLineLen)

InitParse ==
    /\ call \in [fn : {"parse_line"}, line : Lines, line_num : 1..MaxLineNum]
    /\ ret = NotCalled
    /\ DriverIdle

CallParseLine ==
    /\ call.fn = "parse_line"
    /\ ret = NotCalled
    /\ ret' = Returned(parse_line(call.line, call.line_num))
    /\ UNCHANGED <<scan, call, config, driver>>

NextParse == CallParseLine

SpecParse == InitParse /\ [][NextParse]_vars

----------------------------------------------------------------------------
(* SpringStyleOverrider.  Names are the strings over NameChars of up to     *)
(* MaxNameLen characters, keys the strings over KeyChars of up to MaxKeyLen  *)
(* characters.  resolve_substitution is called on every environment of at   *)
(* most one entry, generate_additions on every environment of at most       *)
(* MaxEnvEntries entries.                                                   *)

NameChars == {"P", "p", "_", "-"}
KeyChars == {"p", "P", ".", "-", "_"}
Names == SeqsUpTo(NameChars, MaxNameLen)
Keys == SeqsUpTo(KeyChars, MaxKeyLen)
Values == {<<"v">>, <<"w">>}
Prefixes == {<<"P">>, <<"P", "_">>}

RECURSIVE EnvsUpTo(_, _, _)
EnvsUpTo(names, values, n) ==
    IF n = 0 THEN {EmptyEnv}
    ELSE LET smaller == EnvsUpTo(names, values, n - 1)
         IN  smaller \cup {(name :> value) @@ e :
                              e \in smaller, name \in names, value \in values}

EnvsOfOne(names) ==
    {EmptyEnv} \cup {name :> value : name \in names, value \in Values}

EnvsOver(names) == EnvsUpTo(names, Values, MaxEnvEntries)

InitSpring ==
    /\ \/ call \in [fn : {"resolve_substitution"}, env : EnvsOfOne(Names), key : Keys,
                    prefix : {None} \cup {Some(p) : p \in Prefixes}]
       \/ call \in [fn : {"generate_additions"}, env : EnvsOver(Names), prefix : Prefixes]
    /\ ret = NotCalled
    /\ DriverIdle

CallSpringResolve ==
    /\ call.fn = "resolve_substitution"
    /\ ret = NotCalled
    /\ ret' = Returned(spring_resolve_substitution(call.env, call.key, call.prefix))
    /\ UNCHANGED <<scan, call, config, driver>>

CallSpringGenerate ==
    /\ call.fn = "generate_additions"
    /\ ret = NotCalled
    /\ \E v \in spring_generate_additions(call.env, call.prefix) : ret' = Returned(v)
    /\ UNCHANGED <<scan, call, config, driver>>

NextSpring == CallSpringResolve \/ CallSpringGenerate

SpecSpring == InitSpring /\ [][NextSpring]_vars

----------------------------------------------------------------------------
(* The driver on every input of up to MaxLines lines of InputLines, every    *)
(* environment of up to MaxDriverEnv entries named in DriverNames, and both  *)
(* overrider styles.                                                        *)

InputLines ==
    { <<"#", "c">>,
      <<>>,
      <<"a", "=", "1">>,
      <<"a", ".", "b", "=", "1">>,
      <<"a", "-", "b", "=", "1">>,
      <<"a">> }

DriverPrefix == <<"P", "_">>

DriverNames ==
    { <<"P", "_", "A">>,
      <<"P", "_", "a">>,
      <<"P", "_", "A", "_", "B">>,
      <<"P", "_", "a", "_", "b">>,
      <<"P", "_", "P", "_", "A">>,
      <<"B">> }

DriverValues == {<<"x">>, <<"y">>}

\* the replacement map of the custom style's tests
StandardMap ==
    ("." :> <<"_">>) @@ ("-" :> <<"_", "_">>) @@ ("_" :> <<"_", "_", "_">>)

Init ==
    /\ call = [fn |-> "main"]
    /\ ret = NotCalled
    /\ input \in SeqsUpTo(InputLines, MaxLines)
    /\ env \in EnvsUpTo(DriverNames, DriverValues, MaxDriverEnv)
    /\ \/ spring = TRUE /\ replacement_map = EmptyMap
       \/ spring = FALSE /\ replacement_map = StandardMap
    /\ prefix = DriverPrefix
    /\ pc = "lines"
    /\ line_num = 0
    /\ output = <<>>
    /\ defined_properties = {}
    /\ additions = <<>>
    /\ generated = <<>>
    /\ result = None
    /\ scan = NoScan

Next == ProcessLine \/ GenerateAdditions \/ WriteAddition \/ Finish \/ Exit

Spec == Init /\ [][Next]_vars

----------------------------------------------------------------------------
(* The custom overrider on every key over CustomKeyChars up to MaxKeyLen    *)
(* characters, every name over CustomNameChars up to MaxNameLen characters, *)
(* every map of ReplacementMaps, and the round trip of the tests' key.      *)

CustomKeyChars == {".", "-", "_", "a"}
CustomNameChars == {"P", "_", "a"}
CustomKeys == SeqsUpTo(CustomKeyChars, MaxKeyLen)
CustomNames == SeqsUpTo(CustomNameChars, MaxNameLen)
CustomPrefix == <<"P">>

\* replacement maps: the tests' one, none, two characters sharing a
\* replacement string, a replacement string that extends another, and an
\* empty replacement string
ReplacementMaps ==
    { StandardMap,
      EmptyMap,
      ("." :> <<"_">>) @@ ("-" :> <<"_">>),
      ("." :> <<"_">>) @@ ("-" :> <<"_", "a">>),
      ("." :> <<>>) }

\* test_generate_additions and test_get_prefixed: "foo.bar-baz_foobarbaz"
\* and the name the tests' map gives it, "foo_bar__baz___foobarbaz"
FooKey ==
    <<"f", "o", "o", ".", "b", "a", "r", "-", "b", "a", "z", "_",
      "f", "o", "o", "b", "a", "r", "b", "a", "z">>
FooName ==
    <<"f", "o", "o", "_", "b", "a", "r", "_", "_", "b", "a", "z", "_", "_", "_",
      "f", "o", "o", "b", "a", "r", "b", "a", "z">>
FooPrefixes == {<<"P">>, <<"P", "_">>, <<"f">>, <<"f", "o", "o">>}
FooEnvs == {(p \o FooName) :> v : p \in FooPrefixes, v \in Values}

InitCustom ==
    /\ \/ call \in [fn : {"resolve_substitution"}, map : ReplacementMaps,
                    env : EnvsOfOne(CustomNames), key : CustomKeys,
                    prefix : {None, Some(CustomPrefix)}]
       \/ call \in [fn : {"resolve_substitution"}, map : {StandardMap}, env : FooEnvs,
                    key : {FooKey}, prefix : {Some(p) : p \in FooPrefixes}]
       \/ call \in [fn : {"generate_additions"}, map : ReplacementMaps,
                    env : EnvsOver(CustomNames), prefix : {CustomPrefix}]
       \/ call \in [fn : {"generate_additions"}, map : {StandardMap}, env : FooEnvs,
                    prefix : FooPrefixes]
    /\ ret = NotCalled
    /\ DriverIdle

CallCustomResolve ==
    /\ call.fn = "resolve_substitution"
    /\ ret = NotCalled
    /\ ret' = Returned(custom_resolve_substitution(call.map, call.env, call.key,
                                                   call.prefix))
    /\ UNCHANGED <<scan, call, config, driver>>

\* the call does not return when the scan of some entry does not end
Diverged == [tag |-> "Diverged"]

CallCustomGenerate ==
    /\ call.fn = "generate_additions"
    /\ ret = NotCalled
    /\ IF custom_generate_additions(call.map, call.env, call.prefix) = {}
       THEN ret' = Diverged
       ELSE \E v \in custom_generate_additions(call.map, call.env, call.prefix) :
                ret' = Returned(v)
    /\ UNCHANGED <<scan, call, config, driver>>

NextCustom == CallCustomResolve \/ CallCustomGenerate

SpecCustom == InitCustom /\ [][NextCustom]_vars

----------------------------------------------------------------------------
(* validate_and_convert on every argument set with up to MaxReplacements     *)
(* replacement specs of ReplacementSpecs.                                    *)

MaxReplacements == 2

\* .#_   -#__   \-#__   " . # _ "   ab   ab#_   #_   " #_"   .#   .#_#   \-   \#_
ReplacementSpecs ==
    { <<".", "#", "_">>,
      <<"-", "#", "_", "_">>,
      <<"\\", "-", "#", "_", "_">>,
      <<" ", ".", " ", "#", " ", "_", " ">>,
      <<"a", "b">>,
      <<"a", "b", "#", "_">>,
      <<"#", "_">>,
      <<" ", "#", "_">>,
      <<".", "#">>,
      <<".", "#", "_", "#">>,
      <<"\\", "-">>,
      <<"\\", "#", "_">> }

ArgPrefixes == {<<>>, <<"P">>}
FileOptions == {None, Some(<<"f">>)}

ArgSets ==
    {Args(output_file, spring_flag, prefix_arg, replacement, file) :
        output_file \in FileOptions, spring_flag \in BOOLEAN, prefix_arg \in ArgPrefixes,
        replacement \in SeqsUpTo(ReplacementSpecs, MaxReplacements), file \in FileOptions}

InitValidate ==
    /\ call \in [fn : {"validate_and_convert"}, args : ArgSets]
    /\ ret = NotCalled
    /\ DriverIdle

CallValidateAndConvert ==
    /\ call.fn = "validate_and_convert"
    /\ ret = NotCalled
    /\ LET validated == validate_and_convert(call.args)
       IN  ret' = IF validated = Panicked THEN Panicked ELSE Returned(validated)
    /\ UNCHANGED <<scan, call, config, driver>>

NextValidate == CallValidateAndConvert

SpecValidate == InitValidate /\ [][NextValidate]_vars

----------------------------------------------------------------------------
(* generate_additions of both styles on every environment of up to          *)
(* MaxAdditions entries named in AdditionNames.                              *)

MaxAdditions == 2

AdditionNames ==
    { <<"P">>,
      <<"P", "A">>,
      <<"P", "a">>,
      <<"P", "_">>,
      <<"P", "P">>,
      <<"P", "_", "a">>,
      <<"a">>,
      <<"_", "P">> }

InitAdditions ==
    /\ \/ call \in [fn : {"generate_additions"}, spring : {TRUE}, map : {EmptyMap},
                    env : EnvsUpTo(AdditionNames, Values, MaxAdditions),
                    prefix : {CustomPrefix}]
       \/ call \in [fn : {"generate_additions"}, spring : {FALSE}, map : ReplacementMaps,
                    env : EnvsUpTo(AdditionNames, Values, MaxAdditions),
                    prefix : {CustomPrefix}]
    /\ ret = NotCalled
    /\ DriverIdle

SpringAdditions ==
    /\ call.spring
    /\ CallSpringGenerate

CustomAdditions ==
    /\ ~call.spring
    /\ CallCustomGenerate

NextAdditions == SpringAdditions \/ CustomAdditions

SpecAdditions == InitAdditions /\ [][NextAdditions]_vars

----------------------------------------------------------------------------
(* The while loop of the custom generate_additions, iteration by iteration, *)
(* for one entry named over CustomNameChars and every replacement map that  *)
(* validate_and_convert returns for the argument sets of ArgSets.  An       *)
(* iteration is only taken while replaced_key is shorter than               *)
(* MaxReplacedKeyLen, which no scan that advances reaches.                  *)

MaxReplacedKeyLen == 4

ProducedMaps ==
    {validate_and_convert(args).val.replacement_map :
        args \in {a \in ArgSets : ~a.spring /\ validate_and_convert(a).tag = "Ok"}}

InitScan ==
    /\ call \in [fn : {"generate_additions"}, map : ProducedMaps,
                 env : {name :> <<"v">> : name \in CustomNames}, prefix : {CustomPrefix}]
    /\ ret = NotCalled
    /\ DriverIdle

\* the filter, the reverse index and the prefixless key of the entry
StartScan ==
    /\ ret = NotCalled
    /\ scan = NoScan
    /\ \E name \in prefixed_entries(call.env, call.prefix),
          r \in reverse_replacement_indexes(call.map) :
           scan' = [tag |-> "Scanning", r |-> r, value |-> call.env[name],
                    prefixless_key |-> trim_start_matches(name, call.prefix),
                    start |-> 0, replaced_key |-> <<>>]
    /\ UNCHANGED <<call, ret, config, driver>>

ScanIteration ==
    /\ scan # NoScan
    /\ scan.start < Len(scan.prefixless_key)
    /\ Len(scan.replaced_key) < MaxReplacedKeyLen
    /\ LET next == scan_iteration(scan.r, scan.prefixless_key, scan.start,
                                  scan.replaced_key)
       IN  scan' = [scan EXCEPT !.start = next.start,
                                !.replaced_key = next.replaced_key]
    /\ UNCHANGED <<call, ret, config, driver>>

\* the Vec returned: the property of the scanned entry, or nothing when the
\* entry is not prefixed
ScanReturn ==
    /\ ret = NotCalled
    /\ IF scan = NoScan
       THEN /\ prefixed_entries(call.env, call.prefix) = {}
            /\ ret' = Returned(<<>>)
            /\ UNCHANGED scan
       ELSE /\ ~(scan.start < Len(scan.prefixless_key))
            /\ ret' = Returned(<<Property(scan.replaced_key, scan.value)>>)
            /\ scan' = NoScan
    /\ UNCHANGED <<call, config, driver>>

NextScan == StartScan \/ ScanIteration \/ ScanReturn

SpecScan == InitScan /\ [][NextScan]_vars

----------------------------------------------------------------------------
(* generate_additions followed by resolve_substitution of a key it          *)
(* produced, with the same prefix, for both styles (the custom one with the *)
(* tests' map) and every environment of at most one entry named over        *)
(* RoundTripNameChars up to MaxRoundTripNameLen characters.                 *)

MaxRoundTripNameLen == 5

RoundTripNameChars == {"P", "_", "a", "1"}
RoundTripNames == SeqsUpTo(RoundTripNameChars, MaxRoundTripNameLen)

InitRoundTrip ==
    /\ \/ call \in [fn : {"round_trip"}, spring : {TRUE}, map : {EmptyMap},
                    env : EnvsOfOne(RoundTripNames), prefix : Prefixes]
       \/ call \in [fn : {"round_trip"}, spring : {FALSE}, map : {StandardMap},
                    env : EnvsOfOne(RoundTripNames), prefix : Prefixes]
    /\ ret = NotCalled
    /\ DriverIdle

\* overrider.generate_additions(prefix) of the style's overrider
RoundTripGenerate ==
    /\ call.fn = "round_trip"
    /\ ret = NotCalled
    /\ \E properties \in (IF call.spring
                          THEN spring_generate_additions(call.env, call.prefix)
                          ELSE custom_generate_additions(call.map, call.env, call.prefix)) :
           ret' = [tag |-> "Generated", additions |-> properties]
    /\ UNCHANGED <<scan, call, config, driver>>

\* overrider.resolve_substitution(key, Some(prefix)) for the key of one of
\* the properties generated
RoundTripResolve ==
    /\ call.fn = "round_trip"
    /\ ret.tag = "Generated"
    /\ \E i \in 1..Len(ret.additions) :
           LET property == ret.additions[i]
           IN  ret' = Returned([additions |-> ret.additions, property |-> property,
                                resolved |->
                                    IF call.spring
                                    THEN spring_resolve_substitution(call.env, property.key,
                                                                     Some(call.prefix))
                                    ELSE custom_resolve_substitution(call.map, call.env,
                                                                     property.key,
                                                                     Some(call.prefix))])
    /\ UNCHANGED <<scan, call, config, driver>>

NextRoundTrip == RoundTripGenerate \/ RoundTripResolve

SpecRoundTrip == InitRoundTrip /\ [][NextRoundTrip]_vars

----------------------------------------------------------------------------
(* Claims about parse_line, checked under SpecParse. *)

Parsed == call.fn = "parse_line" /\ ret # NotCalled

AllWhitespace(line) == \A i \in 1..Len(line) : is_whitespace(line[i])

\* text is line without its trailing newline characters
WithoutTrailingNewlines(line, text) ==
    /\ Len(text) <= Len(line)
    /\ SubSeq(line, 1, Len(text)) = text
    /\ \A i \in (Len(text) + 1)..Len(line) : line[i] = "\n"
    /\ (Len(text) > 0 => text[Len(text)] # "\n")

\* the position of the first "=" of a line that holds one
FirstEquals(line) ==
    CHOOSE i \in 1..Len(line) : line[i] = "=" /\ \A k \in 1..(i - 1) : line[k] # "="

KeyOf(line) == SubSeq(line, 1, FirstEquals(line) - 1)
RestOf(line) == SubSeq(line, FirstEquals(line) + 1, Len(line))

\* the messages the claims name
Claimed_MissingEquals == <<"m", "i", "s", "s", "i", "n", "g", " ", "'", "=", "'">>
Claimed_KeyHasSpaces(K) ==
    <<"k", "e", "y", " ", "'">> \o K
        \o <<"'", " ", "c", "o", "n", "t", "a", "i", "n", "s", " ", "s", "p", "a", "c", "e", "s">>

\* C4: a line that starts with '#' or holds only whitespace parses to
\* Ignorable holding the line without its trailing newline characters, every
\* other character kept, and never to an error.
C4_IgnorableKeepsText ==
    (Parsed /\ (starts_with(call.line, <<"#">>) \/ AllWhitespace(call.line)))
        => /\ ret.val.tag = "Ok"
           /\ ret.val.val.tag = "Ignorable"
           /\ WithoutTrailingNewlines(call.line, ret.val.val.text)

C4_Witness ==
    /\ Parsed
    /\ call.line = <<" ", "\t", "\n">>
    /\ ret = Returned(Ok(Ignorable(<<" ", "\t">>)))

\* C5 as stated: every line key=value whose key (the text before the first
\* '=') holds no space parses to Prop(key, value), value being the text after
\* the first '=' without its trailing newline characters.
C5_Original ==
    (Parsed /\ contains(call.line, "=") /\ ~contains(KeyOf(call.line), " "))
        => /\ ret.val.tag = "Ok"
           /\ ret.val.val.tag = "Prop"
           /\ ret.val.val.property.key = KeyOf(call.line)
           /\ WithoutTrailingNewlines(RestOf(call.line), ret.val.val.property.value)

\* C5 amended: the same for every such line that does not start with '#'.
C5_PropKeepsKeyAndValue ==
    (Parsed /\ contains(call.line, "=") /\ ~contains(KeyOf(call.line), " ")
            /\ ~starts_with(call.line, <<"#">>))
        => /\ ret.val.tag = "Ok"
           /\ ret.val.val.tag = "Prop"
           /\ ret.val.val.property.key = KeyOf(call.line)
           /\ WithoutTrailingNewlines(RestOf(call.line), ret.val.val.property.value)

C5_Witness ==
    /\ Parsed
    /\ call.line = <<"a", "=", "=">>
    /\ ret = Returned(Ok(Prop(Property(<<"a">>, <<"=">>))))

\* C6 as stated: every string without '=' fails with the message
\* "missing '='".
C6_Original ==
    (Parsed /\ ~contains(call.line, "="))
        => /\ ret.val.tag = "Err"
           /\ ret.val.err.kind = "ParseError"
           /\ ret.val.err.message = Claimed_MissingEquals

\* C6 amended: every string without '=' that does not start with '#' and
\* does not hold only whitespace fails with the message "missing '='".
C6_MissingEqualsFails ==
    (Parsed /\ ~contains(call.line, "=") /\ ~starts_with(call.line, <<"#">>)
            /\ ~AllWhitespace(call.line))
        => /\ ret.val.tag = "Err"
           /\ ret.val.err.kind = "ParseError"
           /\ ret.val.err.message = Claimed_MissingEquals

C6_Witness ==
    /\ Parsed
    /\ call.line = <<"a", " ", "a">>
    /\ ret.val.tag = "Err"
    /\ Len(ret.val.err.message) = 11

\* C7: a line that is not ignorable, holds '=' and has a space before its
\* first '=' yields no property: it fails with a ParseError carrying the
\* line_num argument and the message "key '<K>' contains spaces", K being the
\* text before the first '=' verbatim.
C7_KeyWithSpacesFails ==
    (Parsed /\ ~starts_with(call.line, <<"#">>) /\ ~AllWhitespace(call.line)
            /\ contains(call.line, "=") /\ contains(KeyOf(call.line), " "))
        => /\ ret.val.tag = "Err"
           /\ ret.val.err.kind = "ParseError"
           /\ ret.val.err.line_num = call.line_num
           /\ ret.val.err.message = Claimed_KeyHasSpaces(KeyOf(call.line))

C7_Witness ==
    /\ Parsed
    /\ call.line = <<" ", "a", "=">>
    /\ call.line_num = 2
    /\ ret = Returned(Err(parse_error(2, Claimed_KeyHasSpaces(<<" ", "a">>))))

----------------------------------------------------------------------------
(* Claims about the driver, checked under Spec. *)

\* the input lines parse_line classifies as properties
IsPropLine(i) ==
    LET parsed == parse_line(input[i], i)
    IN  parsed.tag = "Ok" /\ parsed.val.tag = "Prop"

PropertyOfLine(i) == parse_line(input[i], i).val.property

InputKeys == {PropertyOfLine(i).key : i \in {j \in 1..Len(input) : IsPropLine(j)}}

\* what resolve_substitution(key, Some(prefix)) of the configured style returns
ResolvedFor(key) ==
    IF spring THEN spring_resolve_substitution(env, key, Some(prefix))
    ELSE custom_resolve_substitution(replacement_map, env, key, Some(prefix))

\* the value the driver is to write for the property of line i
WrittenValue(i) ==
    IF ResolvedFor(PropertyOfLine(i).key) # None
    THEN ResolvedFor(PropertyOfLine(i).key).val
    ELSE PropertyOfLine(i).value

EndedOk == pc = "exited" /\ result.tag = "Ok"

\* the lines appended after the lines derived from the input
Appended == SubSeq(output, Len(input) + 1, Len(output))

\* C1: the step that consumes a line parse_line classifies as Prop(key, value)
\* writes exactly one line, key=W, W being the value resolve_substitution
\* returns for the key when it returns one and the line's value otherwise.
C1_PropLineWritesKeyAndResolvedValue ==
    [][(pc = "lines" /\ line_num < Len(input) /\ IsPropLine(line_num + 1))
          => output' = Append(output,
                 PropertyOfLine(line_num + 1).key \o <<"=">> \o WrittenValue(line_num + 1))]_vars

C1_Witness ==
    /\ pc = "lines"
    /\ spring
    /\ input = << <<"a", ".", "b", "=", "1">>, <<"a", "=", "1">> >>
    /\ env = (<<"P", "_", "A", "_", "B">> :> <<"x">>)
    /\ output = << <<"a", ".", "b", "=", "x">>, <<"a", "=", "1">> >>

\* C2 as stated: when the input holds a property line k=v1 and
\* generate_additions yields a property with key k, the final output holds
\* the line k=v1 exactly once and no appended line for k.
C2_Original ==
    EndedOk =>
        \A i \in 1..Len(input) :
            (IsPropLine(i) /\ \E g \in 1..Len(generated) :
                                  generated[g].key = PropertyOfLine(i).key)
                => /\ Cardinality({j \in 1..Len(output) : output[j] = input[i]}) = 1
                   /\ \A j \in 1..Len(Appended) :
                          KeyOf(Appended[j]) # PropertyOfLine(i).key

\* C2 amended: on a run that ends without error, when the input holds a
\* property line k=v1 and generate_additions yields a property with key k, the
\* final output holds one line for each input property line with key k, which
\* is k=W with W the value resolve_substitution returns for k when it returns
\* one and the line's own value otherwise, and no appended line for k.
C2_ExplicitPropertyWinsOverAddition ==
    EndedOk =>
        \A i \in 1..Len(input) :
            (IsPropLine(i) /\ \E g \in 1..Len(generated) :
                                  generated[g].key = PropertyOfLine(i).key)
                => /\ output[i] = PropertyOfLine(i).key \o <<"=">> \o WrittenValue(i)
                   /\ Cardinality({j \in 1..Len(output) :
                                      /\ contains(output[j], "=")
                                      /\ KeyOf(output[j]) = PropertyOfLine(i).key})
                        = Cardinality({j \in 1..Len(input) :
                                          /\ IsPropLine(j)
                                          /\ PropertyOfLine(j).key = PropertyOfLine(i).key})
                   /\ \A j \in 1..Len(Appended) :
                          KeyOf(Appended[j]) # PropertyOfLine(i).key

C2_Witness ==
    /\ EndedOk
    /\ spring
    /\ input = << <<"a", "=", "1">> >>
    /\ env = (<<"P", "_", "a">> :> <<"x">>)
    /\ generated = <<Property(<<"a">>, <<"x">>)>>
    /\ output = << <<"a", "=", "1">> >>

\* C3: the generated properties whose key is the key of no input property
\* line are written as key=value after the lines derived from the input, and
\* a generated property whose key is the key of an input property line is not
\* written.
C3_AdditionsAreTheUndefinedGenerated ==
    EndedOk =>
        LET IsNew(property) == property.key \notin InputKeys
            new == SelectSeq(generated, IsNew)
        IN  /\ Len(output) = Len(input) + Len(new)
            /\ \A j \in 1..Len(new) :
                   output[Len(input) + j] = new[j].key \o <<"=">> \o new[j].value

C3_Witness ==
    /\ EndedOk
    /\ ~spring
    /\ input = << <<"a", ".", "b", "=", "1">> >>
    /\ env = (<<"P", "_", "a", "_", "b">> :> <<"x">>) @@ (<<"P", "_", "a">> :> <<"y">>)
    /\ output = << <<"a", ".", "b", "=", "x">>, <<"a", "=", "y">> >>

\* the input lines parse_line classifies as ignorable
IsIgnorableLine(i) ==
    LET parsed == parse_line(input[i], i)
    IN  parsed.tag = "Ok" /\ parsed.val.tag = "Ignorable"

\* C14: the output holds, for each input line in input order, exactly one
\* line (the ignorable line's text, or key=value for a property line),
\* followed by the addition lines; no addition line is written before the
\* output line of the last input line, and a run that ends without error has
\* written a line for every input line.
C14_InputLinesInOrderThenAdditions ==
    /\ \A j \in 1..Len(output) :
           IF j <= Len(input)
           THEN /\ IsIgnorableLine(j) => output[j] = input[j]
                /\ IsPropLine(j) =>
                       output[j] = PropertyOfLine(j).key \o <<"=">> \o WrittenValue(j)
                /\ IsIgnorableLine(j) \/ IsPropLine(j)
           ELSE \E g \in 1..Len(generated) :
                    output[j] = generated[g].key \o <<"=">> \o generated[g].value
    /\ pc = "lines" => Len(output) = line_num
    /\ pc \in {"additions", "hung"} => Len(output) >= Len(input)
    /\ EndedOk => Len(output) >= Len(input)

C14_Witness ==
    /\ EndedOk
    /\ ~spring
    /\ input = << <<"#", "c">>, <<"a", "-", "b", "=", "1">> >>
    /\ env = (<<"P", "_", "a", "_", "b">> :> <<"x">>) @@ (<<"P", "_", "a">> :> <<"y">>)
    /\ output \in { << <<"#", "c">>, <<"a", "-", "b", "=", "1">>,
                       <<"a", ".", "b", "=", "x">>, <<"a", "=", "y">> >>,
                    << <<"#", "c">>, <<"a", "-", "b", "=", "1">>,
                       <<"a", "=", "y">>, <<"a", ".", "b", "=", "x">> >> }

\* the input lines on which parse_line fails
FailingLines == {i \in 1..Len(input) : parse_line(input[i], i).tag = "Err"}

\* C15: when line i is the first input line on which parse_line fails, the
\* run ends with a ParseError whose line_num is i and with the failure exit
\* code; no output line is written for line i or any later line, and
\* generate_additions is not called, so no addition line is written.
C15_FirstParseErrorEndsTheRun ==
    FailingLines # {} =>
        LET i == CHOOSE i \in FailingLines : \A j \in FailingLines : i <= j
        IN  /\ Len(output) <= i - 1
            /\ generated = <<>> /\ additions = <<>>
            /\ pc \in {"lines", "returned", "exited"}
            /\ pc \in {"returned", "exited"} =>
                   /\ result.tag = "Err"
                   /\ result.err.kind = "ParseError"
                   /\ result.err.line_num = i
                   /\ Len(output) = i - 1
            /\ pc = "exited" => ret = Returned("FAILURE")

C15_Witness ==
    /\ pc = "exited"
    /\ input = << <<"a", "=", "1">>, <<"a">> >>
    /\ env = (<<"P", "_", "a">> :> <<"x">>) @@ (<<"P", "_", "A">> :> <<"y">>)
    /\ result = Err(parse_error(2, MissingEquals))
    /\ ret = Returned("FAILURE")
    /\ output = << <<"a", "=", "x">> >>

\* C21: in the final output of a run, no key is the key of more than one
\* appended addition line, whatever the environment and the style.
C21_Original ==
    EndedOk =>
        \A j, k \in 1..Len(Appended) :
            KeyOf(Appended[j]) = KeyOf(Appended[k]) => j = k

----------------------------------------------------------------------------
(* Claims about SpringStyleOverrider, checked under SpecSpring. *)

Resolved == call.fn = "resolve_substitution" /\ ret # NotCalled
Generated == call.fn = "generate_additions" /\ ret # NotCalled

\* name is pfx followed by the key with '.' and '-' replaced by '_' and
\* every other character uppercased
IsSpringNameOf(name, key, pfx) ==
    /\ Len(name) = Len(pfx) + Len(key)
    /\ \A i \in 1..Len(pfx) : name[i] = pfx[i]
    /\ \A i \in 1..Len(key) :
           name[Len(pfx) + i] = IF key[i] \in {".", "-"} THEN "_" ELSE upper_char(key[i])

\* C8: resolve_substitution returns the value stored under exactly the name
\* prefix + UPPERCASE(key with '.' and '-' replaced by '_'), the prefix being
\* empty when absent, and none when the environment has no such entry.
C8_SpringResolveLooksUpTransliteratedName ==
    Resolved =>
        LET pfx == IF call.prefix = None THEN <<>> ELSE call.prefix.val
            named == {name \in DOMAIN call.env : IsSpringNameOf(name, call.key, pfx)}
        IN  IF named = {}
            THEN ret.val = None
            ELSE \A name \in named : ret.val = Some(call.env[name])

C8_Witness ==
    /\ Resolved
    /\ call.key = <<"p", "-">>
    /\ call.prefix = Some(<<"P">>)
    /\ call.env = (<<"P", "P", "_">> :> <<"w">>)
    /\ ret.val = Some(<<"w">>)

\* the key the reverse rule gives for the remainder R of a name: every '_'
\* replaced by '.', the rest lowercased
ReverseRuleKey(R) == [i \in 1..Len(R) |-> IF R[i] = "_" THEN "." ELSE lower_char(R[i])]

\* C9: for every entry named prefix + R, generate_additions emits the
\* property whose key is R with every '_' replaced by '.' and lowercased, and
\* whose value is the entry's value.
C9_Original ==
    Generated =>
        \A name \in DOMAIN call.env :
            starts_with(name, call.prefix) =>
                LET R == SubSeq(name, Len(call.prefix) + 1, Len(name))
                IN  \E i \in 1..Len(ret.val) :
                        ret.val[i] = Property(ReverseRuleKey(R), call.env[name])

\* C10 as stated: no property generate_additions returns has a key that holds
\* '-', whatever the environment and the prefix.
C10_Original ==
    Generated => \A i \in 1..Len(ret.val) : ~contains(ret.val[i].key, "-")

\* C10 amended: when no entry name of the environment holds '-', no property
\* generate_additions returns has a key that holds '-'.
C10_NoDashUnlessNameHasDash ==
    (Generated /\ \A name \in DOMAIN call.env : ~contains(name, "-"))
        => \A i \in 1..Len(ret.val) : ~contains(ret.val[i].key, "-")

C10_Witness ==
    /\ Generated
    /\ call.prefix = <<"P">>
    /\ call.env = (<<"P", "_", "P">> :> <<"v">>)
    /\ ret.val = <<Property(<<".", "p">>, <<"v">>)>>

----------------------------------------------------------------------------
(* Claims about the custom overrider, checked under SpecCustom. *)

\* every character of key that the map lists replaced by its replacement
\* string, every other character kept
RECURSIVE Transliterated(_, _)
Transliterated(m, key) ==
    IF key = <<>> THEN <<>>
    ELSE (IF Head(key) \in DOMAIN m THEN m[Head(key)] ELSE <<Head(key)>>)
             \o Transliterated(m, Tail(key))

\* C11: the custom resolve_substitution returns the value stored under
\* exactly the name made of the prefix (empty when absent) followed by, for
\* each character of the key in order, its replacement string when the map
\* lists the character and the character itself otherwise, with no case
\* transform; it returns none when the environment has no such entry.
C11_CustomResolveLooksUpTransliteratedName ==
    Resolved =>
        LET pfx == IF call.prefix = None THEN <<>> ELSE call.prefix.val
            name == pfx \o Transliterated(call.map, call.key)
        IN  IF name \in DOMAIN call.env
            THEN ret.val = Some(call.env[name])
            ELSE ret.val = None

C11_Witness ==
    /\ Resolved
    /\ call.map = StandardMap
    /\ call.key = <<".", "a">>
    /\ call.prefix = Some(<<"P">>)
    /\ call.env = (<<"P", "_", "a">> :> <<"w">>)
    /\ ret.val = Some(<<"w">>)

\* the replacement strings of m are pairwise distinct
PairwiseDistinct(m) == \A c, d \in DOMAIN m : m[c] = m[d] => c = d

NoEmptyReplacement(m) == \A c \in DOMAIN m : m[c] # <<>>

\* R scanned left to right: where replacement strings of m occur, the
\* longest is consumed and its character emitted; elsewhere the current
\* character is emitted (m pairwise distinct, without empty replacement)
RECURSIVE Scanned(_, _)
Scanned(m, R) ==
    IF R = <<>> THEN <<>>
    ELSE LET occurring == {c \in DOMAIN m : starts_with(R, m[c])}
         IN  IF occurring = {} THEN <<Head(R)>> \o Scanned(m, Tail(R))
             ELSE LET c == CHOOSE c \in occurring :
                               \A d \in occurring : Len(m[d]) <= Len(m[c])
                  IN  <<c>> \o Scanned(m, SubSeq(R, Len(m[c]) + 1, Len(R)))

\* the remainder R of a name that is prefix + R
Remainder(name, pfx) == SubSeq(name, Len(pfx) + 1, Len(name))

\* C12: for every map whose replacement strings are pairwise distinct (and,
\* so that the scan is defined, none empty) and every entry named prefix + R,
\* the custom generate_additions emits the property whose key is R scanned
\* left to right, the longest replacement string occurring at a position
\* being consumed and its character emitted, any other character kept, and
\* whose value is the entry's value.
C12_Original ==
    (Generated /\ PairwiseDistinct(call.map) /\ NoEmptyReplacement(call.map)) =>
        \A name \in DOMAIN call.env :
            starts_with(name, call.prefix) =>
                \E i \in 1..Len(ret.val) :
                    ret.val[i] = Property(Scanned(call.map, Remainder(name, call.prefix)),
                                          call.env[name])

\* C13: with the tests' map, the key foo.bar-baz_foobarbaz and a prefix P,
\* when the environment holds exactly the entry P + foo_bar__baz___foobarbaz
\* with value v, resolve_substitution(key, P) returns v and
\* generate_additions(P) yields exactly the property (foo.bar-baz_foobarbaz, v).
C13_Original ==
    /\ (/\ Resolved
        /\ call.map = StandardMap
        /\ call.key = FooKey
        /\ call.prefix # None
        /\ DOMAIN call.env = {call.prefix.val \o FooName}) =>
            ret.val = Some(call.env[call.prefix.val \o FooName])
    /\ (/\ Generated
        /\ call.map = StandardMap
        /\ DOMAIN call.env = {call.prefix \o FooName}) =>
            ret.val = <<Property(FooKey, call.env[call.prefix \o FooName])>>

----------------------------------------------------------------------------
(* Claims about validate_and_convert, checked under SpecValidate. *)

Validated == call.fn = "validate_and_convert" /\ ret # NotCalled

\* the left-hand side of a spec holding '#': the text before the first '#'
\* without surrounding whitespace, \- being read as -
LeftSide(replacement) ==
    LET i == CHOOSE j \in 1..Len(replacement) :
                 replacement[j] = "#" /\ \A k \in 1..(j - 1) : replacement[k] # "#"
        text == SubSeq(replacement, 1, i - 1)
        first == {j \in 1..Len(text) : ~is_whitespace(text[j])}
        bare == IF first = {} THEN <<>>
                ELSE SubSeq(text, CHOOSE j \in first : \A k \in first : j <= k,
                                  CHOOSE j \in first : \A k \in first : k <= j)
    IN  IF bare = <<"\\", "-">> THEN <<"-">> ELSE bare

WellFormed(replacement) ==
    /\ \E j \in 1..Len(replacement) : replacement[j] = "#"
    /\ Len(LeftSide(replacement)) = 1

SpringMessage ==
    <<"r", "e", "p", "l", "a", "c", "e", "m", "e", "n", "t", "s", " ", "a", "r", "e", " ",
      "n", "o", "t", " ", "a", "l", "l", "o", "w", "e", "d", " ", "w", "h", "e", "n", " ",
      "'", "s", "p", "r", "i", "n", "g", "'", " ", "f", "l", "a", "g", " ", "i", "s", " ",
      "p", "a", "s", "s", "e", "d">>

PrefixMessage ==
    <<"p", "r", "e", "f", "i", "x", " ", "m", "u", "s", "t", " ", "n", "o", "t", " ",
      "b", "e", " ", "e", "m", "p", "t", "y">>

FailedWith(messages) ==
    /\ ret.tag = "Returned"
    /\ ret.val.tag = "Err"
    /\ ret.val.err.kind = "ArgumentValidationErrors"
    /\ ret.val.err.errors = messages

C17_Original ==
    (Validated /\ call.args.prefix = <<>>) =>
        /\ ret.tag = "Returned"
        /\ ret.val.tag = "Err"
        /\ ret.val.err.kind = "ArgumentValidationErrors"
        /\ \E i \in 1..Len(ret.val.err.errors) : ret.val.err.errors[i] = PrefixMessage
        /\ (call.args.spring /\ call.args.replacement # <<>>) =>
               \E i \in 1..Len(ret.val.err.errors) : ret.val.err.errors[i] = SpringMessage

\* the positions of the replacement specs that lack '#' or whose left-hand
\* side is not exactly one character
Malformed(replacement) ==
    {i \in 1..Len(replacement) : ~WellFormed(replacement[i])}

\* C18: validate_and_convert returns ArgumentValidationErrors holding one
\* message for every replacement spec that lacks '#' or whose left-hand side,
\* trimmed and with \- read as -, is not exactly one character, next to the
\* messages about 'spring' and the prefix, all collected rather than the
\* first only; it returns a Configuration only when no input is offending.
C18_Original ==
    Validated =>
        LET args == call.args
            expected == (IF args.spring /\ args.replacement # <<>> THEN 1 ELSE 0)
                        + (IF args.prefix = <<>> THEN 1 ELSE 0)
                        + Cardinality(Malformed(args.replacement))
        IN  /\ ret.tag = "Returned"
            /\ IF expected = 0
               THEN ret.val.tag = "Ok"
               ELSE /\ ret.val.tag = "Err"
                    /\ ret.val.err.kind = "ArgumentValidationErrors"
                    /\ Len(ret.val.err.errors) = expected

----------------------------------------------------------------------------
(* Claims about generate_additions of both styles, checked under            *)
(* SpecAdditions.                                                           *)

\* the names of the entries generate_additions is to turn into properties
Prefixed == {name \in DOMAIN call.env : starts_with(name, call.prefix)}

\* C19: for both styles, generate_additions returns exactly one property per
\* environment entry whose name starts with the prefix, with the entry's
\* value unchanged, and none for the other entries: as many properties as
\* prefixed entries, and each value as often as prefixed entries hold it.
C19_Original ==
    Generated =>
        /\ ret.tag = "Returned"
        /\ Len(ret.val) = Cardinality(Prefixed)
        /\ \A v \in Values :
               Cardinality({i \in 1..Len(ret.val) : ret.val[i].value = v})
                   = Cardinality({name \in Prefixed : call.env[name] = v})

----------------------------------------------------------------------------
(* Claims about the scan of the custom generate_additions, checked under    *)
(* SpecScan.                                                                *)

\* C20: for every environment and every replacement map validate_and_convert
\* can produce, a map with an empty replacement string (spec ".#") included,
\* the custom generate_additions terminates: every iteration of its scan
\* strictly increases the scan position.
C20_Original ==
    [][(scan # NoScan /\ scan' # NoScan) => scan'.start > scan.start]_vars

----------------------------------------------------------------------------
(* Claims about the round trip from an entry to its addition and back,      *)
(* checked under SpecRoundTrip.                                             *)

RoundTripKeyChars == {".", "-", "_", "a", "P", "1"}
RoundTripKeys == SeqsUpTo(RoundTripKeyChars, MaxKeyLen)

\* no two characters of the map m are adjacent in key
NoAdjacentMapCharacters(m, key) ==
    \A i \in 1..(Len(key) - 1) : ~(key[i] \in DOMAIN m /\ key[i + 1] \in DOMAIN m)

UppercaseDigitsUnderscores(R) ==
    R # <<>> /\ \A i \in 1..Len(R) : R[i] \in {"A", "B", "P", "1", "_"}

\* C23: Spring style: for every prefix and every entry named prefix + R with
\* value v, R non-empty and made of uppercase letters, digits and '_' only,
\* the property (k, v) generate_additions produces from the entry satisfies
\* resolve_substitution(k, Some(prefix)) = v.
C23_Original ==
    (call.fn = "round_trip" /\ call.spring /\ ret.tag = "Returned") =>
        \A name \in DOMAIN call.env :
            (/\ starts_with(name, call.prefix)
             /\ UppercaseDigitsUnderscores(Remainder(name, call.prefix))) =>
                ret.val.resolved = Some(call.env[name])

====
